---- MODULE Spec2Model ----
(***************************************************************************)
(* Model of src-tauri/src/main.rs: the Tauri command                       *)
(*                                                                         *)
(*     fn remove_dir_all(path: String) -> Result<(), String> {             *)
(*         fs::remove_dir_all(&path).map_err(|e| e.to_string())            *)
(*     }                                                                   *)
(*                                                                         *)
(* registered by main() with the host's invoke handler.  The command is a  *)
(* pass-through to std::fs::remove_dir_all, so the model carries the       *)
(* filesystem the call acts on and the system calls the primitive issues   *)
(* (Unix: lstat, openat(O_NOFOLLOW|O_DIRECTORY), getdents64, unlinkat),    *)
(* one step per system call, so that calls dispatched concurrently by the  *)
(* host interleave as they do on the real filesystem.                      *)
(*                                                                         *)
(* Scope of the filesystem model: a small tree below the process's working *)
(* directory; discretionary permissions of an unprivileged caller; paths   *)
(* are relative and have no symbolic link in a non-final component.        *)
(***************************************************************************)
EXTENDS Naturals, Sequences, FiniteSets, TLC

VARIABLES
    fs,             \* node -> "absent" | "file" | "dir" | "symlink"
    mode,           \* directory -> "rwx" | "rx" | "none" (the caller's access)
    pc,             \* worker -> position inside the command
    path,           \* worker -> the command's argument
    stack,          \* worker -> recursion frames of remove_dir_all_recursive
    prim,           \* worker -> errno fs::remove_dir_all ended with ("" = Ok)
    attempts,       \* worker -> calls of fs::remove_dir_all in this invocation
    fs0,            \* worker -> the filesystem when the invocation started
    responses,      \* results delivered to the callers, in completion order
    alive           \* the process is running

vars == <<fs, mode, pc, path, stack, prim, attempts, fs0,
          responses, alive>>

\* Number of invocations the host dispatches in one run.
MaxCalls == 2

\* The host's worker threads that run command handlers.
Workers == {1, 2}

-----------------------------------------------------------------------------
(* The filesystem below the working directory. *)

Top == <<>>
NodeA == <<"a">>
NodeF == <<"a", "f">>
NodeS == <<"a", "s">>
NodeG == <<"a", "s", "g">>

Nodes == {NodeA, NodeF, NodeS, NodeG}
Dirs == {Top, NodeA, NodeS}
Kinds == {"absent", "file", "dir", "symlink"}
Modes == {"rwx", "rx", "none"}

\* The kinds each node of the tree takes in the initial filesystems.
AllowedKinds(n) ==
    CASE n = NodeA -> {"absent", "dir", "file"}
      [] n = NodeF -> {"absent", "file"}
      [] n = NodeS -> {"absent", "dir", "file"}
      [] n = NodeG -> {"absent", "file", "symlink"}

\* The path strings callers pass: "", "a", "a/f", "a/s", "a/s/g" and
\* "a/f/x", which never names an entry (a/f is at most a regular file).
Paths == {<<>>, <<"a", "f", "x">>} \cup Nodes

Parent(n) == SubSeq(n, 1, Len(n) - 1)

Kind(f, n) == IF n = Top THEN "dir" ELSE f[n]

Children(f, n) == {c \in Nodes : Parent(c) = n /\ f[c] # "absent"}

\* An entry exists only inside a directory; only directories carry a mode.
WellFormed(f, m) ==
    /\ \A n \in Nodes :
          /\ f[n] \in AllowedKinds(n)
          /\ f[n] # "absent" => Kind(f, Parent(n)) = "dir"
    /\ m[Top] # "none"
    /\ \A d \in Dirs \ {Top} : f[d] # "dir" => m[d] = "rwx"

\* Mutant: every directory can be searched and listed.
MayListAlways(m, d) == TRUE

\* Search and read permission on a directory (r-x): lookup through it and
\* opening it for readdir.
MayList(m, d) == m[d] # "none"

\* Mutant: directory permissions not consulted when removing an entry.
MayUnlinkAlways(m, d) == TRUE

\* Write permission on a directory: removing an entry of it.
MayUnlink(m, d) == m[d] = "rwx"

-----------------------------------------------------------------------------
(* Path resolution, as the kernel does it for lstat, openat and unlinkat   *)
(* with AT_FDCWD: the final component is not followed.                     *)

RECURSIVE Walk(_, _, _, _)
Walk(f, m, cur, rest) ==
    IF ~MayList(m, cur) THEN [err |-> "EACCES", node |-> Top]
    ELSE LET nxt == Append(cur, Head(rest)) IN
         IF nxt \notin Nodes \/ f[nxt] = "absent"
         THEN [err |-> "ENOENT", node |-> Top]
         ELSE IF Len(rest) = 1 THEN [err |-> "", node |-> nxt]
         ELSE IF f[nxt] # "dir" THEN [err |-> "ENOTDIR", node |-> Top]
         ELSE Walk(f, m, nxt, Tail(rest))

\* Mutant: the empty path taken as the working directory.
ResolveEmptyAsCwd(f, m, p) ==
    IF p = <<>> THEN [err |-> "", node |-> Top] ELSE Walk(f, m, Top, p)

\* POSIX: the empty pathname does not resolve (ENOENT).
Resolve(f, m, p) ==
    IF p = <<>> THEN [err |-> "ENOENT", node |-> Top] ELSE Walk(f, m, Top, p)

-----------------------------------------------------------------------------
(* The system calls of std::fs::remove_dir_all (Unix).                     *)

\* Mutant: the non-recursive remove_dir, which lists nothing.
EntriesNone(f, n) == {}

\* readdir: the entries of an open directory ("." and ".." skipped).
Entries(f, n) == Children(f, n)

\* is_dir(&child): the entry's d_type; a symbolic link is not a directory.
is_dir(f, c) == f[c] = "dir"

\* openat(.., O_NOFOLLOW | O_DIRECTORY | O_RDONLY) of an existing node.
OpenError(f, m, n) ==
    IF Kind(f, n) = "absent" THEN "ENOENT"
    ELSE IF Kind(f, n) # "dir" THEN "ENOTDIR"
    ELSE IF ~MayList(m, n) THEN "EACCES"
    ELSE ""

\* unlinkat(.., 0) of a non-directory entry.
UnlinkError(f, m, n) ==
    IF n = Top THEN "EBUSY"
    ELSE IF f[n] = "absent" THEN "ENOENT"
    ELSE IF ~MayUnlink(m, Parent(n)) THEN "EACCES"
    ELSE IF f[n] = "dir" THEN "EISDIR"
    ELSE ""

\* unlinkat(.., AT_REMOVEDIR).
RmdirError(f, m, n) ==
    IF n = Top THEN "EBUSY"
    ELSE IF f[n] = "absent" THEN "ENOENT"
    ELSE IF ~MayUnlink(m, Parent(n)) THEN "EACCES"
    ELSE IF f[n] # "dir" THEN "ENOTDIR"
    ELSE IF Children(f, n) # {} THEN "ENOTEMPTY"
    ELSE ""

\* Mutant: removal that also prunes the parent it leaves empty (removedirs).
RemovedWithParent(f, n) ==
    LET g == [f EXCEPT ![n] = "absent"] IN
    IF Parent(n) # Top /\ Children(g, Parent(n)) = {}
    THEN [g EXCEPT ![Parent(n)] = "absent"] ELSE g

\* The filesystem after a successful unlinkat of n.
Removed(f, n) == [f EXCEPT ![n] = "absent"]

\* The syscall remove_dir_all_recursive issues for a listed entry c of the
\* open directory d: openat for a directory, unlinkat for anything else.
ChildError(f, m, d, c) ==
    IF f[c] = "absent" THEN "ENOENT"
    ELSE IF is_dir(f, c) THEN OpenError(f, m, c)
    ELSE UnlinkError(f, m, c)

\* Mutant: NotFound dropped wherever it arises, the root's lstat included.
IgnoredAlways(e, site) == e = "ENOENT"

\* The NotFound errors std drops: the one an entry's removal ends with
\* (the loop's is_err_and(kind != NotFound)) and the one of the unlinkat
\* that removes a directory after its contents (ignore_notfound), the
\* deletion root's included.  The root's lstat, openat and unlink return
\* theirs.
Ignored(e, site) == e = "ENOENT" /\ site \in {"entry", "rmdir"}

-----------------------------------------------------------------------------
(* The command's own code: map_err(|e| e.to_string()).                     *)

Ok == [tag |-> "Ok", msg |-> ""]
Err(s) == [tag |-> "Err", msg |-> s]

\* Mutant: an error rendered as the empty string.
to_string_empty(e) == ""

\* io::Error's Display for an OS error.
to_string(e) ==
    CASE e = "ENOENT" -> "No such file or directory (os error 2)"
      [] e = "EACCES" -> "Permission denied (os error 13)"
      [] e = "ENOTDIR" -> "Not a directory (os error 20)"
      [] e = "ENOTEMPTY" -> "Directory not empty (os error 39)"
      [] e = "EISDIR" -> "Is a directory (os error 21)"
      [] e = "EBUSY" -> "Device or resource busy (os error 16)"

\* Mutant: unwrap() in place of map_err: the handler panics on an error.
command_unwrap(e) == [reply |-> Ok, panic |-> e # ""]

\* Mutant: an error kept across invocations and returned again.
command_sticky(e) ==
    IF \E i \in DOMAIN responses : responses[i].result.tag = "Err"
    THEN [reply |-> responses[CHOOSE i \in DOMAIN responses :
                                  responses[i].result.tag = "Err"].result,
          panic |-> FALSE]
    ELSE [reply |-> IF e = "" THEN Ok ELSE Err(to_string(e)), panic |-> FALSE]

\* What the command returns for the primitive's result e ("" = Ok(())).
command_result(e) ==
    [reply |-> IF e = "" THEN Ok ELSE Err(to_string(e)), panic |-> FALSE]

-----------------------------------------------------------------------------
(* Initial states and actions.                                             *)

Init ==
    /\ fs \in [Nodes -> Kinds]
    /\ mode \in [Dirs -> Modes]
    /\ WellFormed(fs, mode)
    /\ pc = [w \in Workers |-> "idle"]
    /\ path = [w \in Workers |-> <<>>]
    /\ stack = [w \in Workers |-> <<>>]
    /\ prim = [w \in Workers |-> ""]
    /\ attempts = [w \in Workers |-> 0]
    /\ fs0 = [w \in Workers |-> fs]
    /\ responses = <<>>
    /\ alive = TRUE

Busy == {w \in Workers : pc[w] # "idle"}

\* The host routes a caller's request to the command on an idle worker.
invoke_handler(w, p) ==
    /\ alive
    /\ pc[w] = "idle"
    /\ Len(responses) + Cardinality(Busy) < MaxCalls
    /\ pc' = [pc EXCEPT ![w] = "lstat"]
    /\ path' = [path EXCEPT ![w] = p]
    /\ attempts' = [attempts EXCEPT ![w] = 0]
    /\ fs0' = [fs0 EXCEPT ![w] = fs]
    /\ prim' = [prim EXCEPT ![w] = ""]
    /\ UNCHANGED <<fs, mode, stack, responses, alive>>

\* fs::remove_dir_all returns to the command with errno e ("" = Ok).
Finish(w, e) ==
    /\ pc' = [pc EXCEPT ![w] = "ret"]
    /\ prim' = [prim EXCEPT ![w] = e]
    /\ stack' = [stack EXCEPT ![w] = <<>>]

\* Mutant: the command serialised by a process-wide lock.
LstatUnderLock(w) ==
    /\ \A v \in Workers \ {w} : pc[v] \in {"idle", "lstat"}
    /\ alive
    /\ pc[w] = "lstat"
    /\ attempts' = [attempts EXCEPT ![w] = @ + 1]
    /\ LET r == Resolve(fs, mode, path[w]) IN
       IF r.err # ""
       THEN Finish(w, r.err)
       ELSE /\ pc' = [pc EXCEPT ![w] =
                        IF Kind(fs, r.node) = "symlink" THEN "unlink_root"
                        ELSE "open_root"]
            /\ UNCHANGED <<prim, stack>>
    /\ UNCHANGED <<fs, mode, path, fs0, responses, alive>>

\* fs::remove_dir_all is entered: lstat(path) tells a symlink from the rest.
Lstat(w) ==
    /\ alive
    /\ pc[w] = "lstat"
    /\ attempts' = [attempts EXCEPT ![w] = @ + 1]
    /\ LET r == Resolve(fs, mode, path[w]) IN
       IF r.err # ""
       THEN Finish(w, IF Ignored(r.err, "lstat") THEN "" ELSE r.err)
       ELSE /\ pc' = [pc EXCEPT ![w] =
                        IF Kind(fs, r.node) = "symlink" THEN "unlink_root"
                        ELSE "open_root"]
            /\ UNCHANGED <<prim, stack>>
    /\ UNCHANGED <<fs, mode, path, fs0, responses, alive>>

\* The path is a symbolic link: remove_file(path) unlinks the link itself.
UnlinkRoot(w) ==
    /\ alive
    /\ pc[w] = "unlink_root"
    /\ LET r == Resolve(fs, mode, path[w])
           e == IF r.err # "" THEN r.err ELSE UnlinkError(fs, mode, r.node)
       IN IF e # ""
          THEN /\ Finish(w, IF Ignored(e, "unlink") THEN "" ELSE e)
               /\ UNCHANGED fs
          ELSE /\ fs' = Removed(fs, r.node)
               /\ Finish(w, "")
    /\ UNCHANGED <<mode, path, attempts, fs0, responses, alive>>

\* remove_dir_all_recursive(None, path): openat of the deletion root.  A
\* root that is not a directory is an error and is not unlinked.
OpenRoot(w) ==
    /\ alive
    /\ pc[w] = "open_root"
    /\ LET r == Resolve(fs, mode, path[w])
           e == IF r.err # "" THEN r.err ELSE OpenError(fs, mode, r.node)
       IN IF e # ""
          THEN Finish(w, IF Ignored(e, "open") THEN "" ELSE e)
          ELSE /\ pc' = [pc EXCEPT ![w] = "walk"]
               /\ stack' = [stack EXCEPT ![w] =
                              <<[node |-> r.node, todo |-> {}, listed |-> FALSE]>>]
               /\ UNCHANGED prim
    /\ UNCHANGED <<fs, mode, path, attempts, fs0, responses, alive>>

\* getdents64 on the directory opened last: its entries as they are now (a
\* directory removed meanwhile lists nothing).
ListStep(w) ==
    /\ alive
    /\ pc[w] = "walk"
    /\ LET d == Len(stack[w])
           top == stack[w][d]
       IN /\ ~top.listed
          /\ stack' = [stack EXCEPT ![w][d] =
                         [node |-> top.node, todo |-> Entries(fs, top.node),
                          listed |-> TRUE]]
    /\ UNCHANGED <<fs, mode, pc, path, prim, attempts, fs0, responses, alive>>

\* One listed entry of the directory on top of the recursion, in readdir's
\* order (unspecified): a directory is opened, anything else unlinked.
ChildStep(w) ==
    /\ alive
    /\ pc[w] = "walk"
    /\ LET d == Len(stack[w])
           top == stack[w][d]
       IN /\ top.listed
          /\ \E c \in top.todo :
             LET rest == [stack[w] EXCEPT ![d].todo = @ \ {c}]
                 e == ChildError(fs, mode, top.node, c)
             IN IF e # ""
                THEN /\ IF Ignored(e, "entry")
                        THEN /\ stack' = [stack EXCEPT ![w] = rest]
                             /\ UNCHANGED <<pc, prim>>
                        ELSE Finish(w, e)
                     /\ UNCHANGED fs
                ELSE IF is_dir(fs, c)
                THEN /\ stack' = [stack EXCEPT ![w] =
                                    Append(rest, [node |-> c, todo |-> {},
                                                  listed |-> FALSE])]
                     /\ UNCHANGED <<fs, pc, prim>>
                ELSE /\ fs' = Removed(fs, c)
                     /\ stack' = [stack EXCEPT ![w] = rest]
                     /\ UNCHANGED <<pc, prim>>
    /\ UNCHANGED <<mode, path, attempts, fs0, responses, alive>>

\* Every entry of the directory on top has been handled: unlink it.  The
\* deletion root is removed by its path, a nested directory through its
\* parent's descriptor; a NotFound from this unlinkat is dropped.
RmdirStep(w) ==
    /\ alive
    /\ pc[w] = "walk"
    /\ LET d == Len(stack[w])
           top == stack[w][d]
           r == IF d = 1 THEN Resolve(fs, mode, path[w])
                ELSE [err |-> "", node |-> top.node]
           e == IF r.err # "" THEN r.err ELSE RmdirError(fs, mode, r.node)
           pop == SubSeq(stack[w], 1, d - 1)
       IN /\ top.listed
          /\ top.todo = {}
          /\ fs' = IF e = "" THEN Removed(fs, r.node) ELSE fs
          /\ IF e # "" /\ ~Ignored(e, "rmdir")
             THEN Finish(w, e)
             ELSE IF d = 1
             THEN Finish(w, "")
             ELSE /\ stack' = [stack EXCEPT ![w] = pop]
                  /\ UNCHANGED <<pc, prim>>
    /\ UNCHANGED <<mode, path, attempts, fs0, responses, alive>>

\* The command maps the primitive's result and the host delivers it.
Return(w) ==
    /\ alive
    /\ pc[w] = "ret"
    /\ LET out == command_result(prim[w]) IN
       /\ responses' = Append(responses,
                              [path |-> path[w], before |-> fs0[w],
                               after |-> fs, result |-> out.reply])
       /\ alive' = ~out.panic
    /\ pc' = [pc EXCEPT ![w] = "idle"]
    /\ UNCHANGED <<fs, mode, path, stack, prim, attempts, fs0>>

\* One system call or the return of a worker's invocation.
WorkerStep(w) ==
    \/ Lstat(w)
    \/ UnlinkRoot(w)
    \/ OpenRoot(w)
    \/ ListStep(w)
    \/ ChildStep(w)
    \/ RmdirStep(w)
    \/ Return(w)

\* The host dispatches invocations with no coordination between them.
Next ==
    \/ \E w \in Workers, p \in Paths : invoke_handler(w, p)
    \/ \E w \in Workers : WorkerStep(w)

Spec == Init /\ [][Next]_vars

\* Invocations issued one after the other: the next one is dispatched only
\* when no invocation is running.
SeqInvoke(w, p) == Busy = {} /\ invoke_handler(w, p)

SeqNext ==
    \/ \E w \in Workers, p \in Paths : SeqInvoke(w, p)
    \/ \E w \in Workers : WorkerStep(w)

SeqSpec == Init /\ [][SeqNext]_vars

-----------------------------------------------------------------------------
(* Vocabulary of the properties.  A response records the path, the         *)
(* filesystem when the invocation started (before) and when it returned    *)
(* (after), and the result handed to the caller.                           *)

IsPrefix(p, n) == Len(p) <= Len(n) /\ SubSeq(n, 1, Len(p)) = p

NotFoundMsg == "No such file or directory (os error 2)"
NotADirMsg == "Not a directory (os error 20)"
DeniedMsg == "Permission denied (os error 13)"

\* The caller may delete the directory d and everything beneath it: each
\* directory of the subtree can be listed, each non-empty one and d's parent
\* can be written.
CallerMayDelete(f, m, d) ==
    /\ m[Parent(d)] = "rwx"
    /\ \A x \in Dirs \ {Top} :
          IsPrefix(d, x) /\ f[x] = "dir" =>
             /\ m[x] # "none"
             /\ Children(f, x) # {} => m[x] = "rwx"

\* Entries beneath the directory d that cannot be removed: their directory
\* is not writable.
Stuck(f, m, d) ==
    {n \in Nodes : n # d /\ IsPrefix(d, n) /\ f[n] # "absent"
                   /\ m[Parent(n)] # "rwx"}

\* The result of an undisturbed call as a function of the path and of the
\* filesystem at the time of the call.
Outcome(f, m, p) ==
    LET r == Resolve(f, m, p) IN
    IF r.err = "ENOENT" THEN Err(NotFoundMsg)
    ELSE IF r.err = "ENOTDIR" THEN Err(NotADirMsg)
    ELSE IF r.err = "EACCES" THEN Err(DeniedMsg)
    ELSE IF f[r.node] = "file" THEN Err(NotADirMsg)
    ELSE IF f[r.node] = "symlink"
    THEN IF m[Parent(r.node)] = "rwx" THEN Ok ELSE Err(DeniedMsg)
    ELSE IF CallerMayDelete(f, m, r.node) THEN Ok ELSE Err(DeniedMsg)

-----------------------------------------------------------------------------
(* C1: a call on an existing directory the caller may delete, undisturbed, *)
(* returns Ok(()) and afterwards neither the directory nor any entry that  *)
(* was beneath it exists.                                                  *)
C1_DeletesTree ==
    \A i \in DOMAIN responses :
       LET e == responses[i]
           r == Resolve(e.before, mode, e.path)
       IN (r.err = "" /\ e.before[r.node] = "dir"
             /\ CallerMayDelete(e.before, mode, r.node))
          => /\ e.result = Ok
             /\ \A n \in Nodes : IsPrefix(e.path, n) => e.after[n] = "absent"

C1_Witness ==
    \E i \in DOMAIN responses :
       LET e == responses[i] IN
       /\ e.path = NodeA
       /\ e.before[NodeF] = "file" /\ e.before[NodeS] = "dir"
       /\ e.before[NodeG] # "absent"
       /\ e.result = Ok
       /\ e.after[NodeA] = "absent"

(* C2: a call on a path that does not exist returns a failure whose        *)
(* message is the OS error's non-empty text, leaves the filesystem         *)
(* unchanged and does not terminate the process.                           *)
C2_MissingPathFails ==
    \A i \in DOMAIN responses :
       LET e == responses[i]
           r == Resolve(e.before, mode, e.path)
       IN r.err \in {"ENOENT", "ENOTDIR"}
          => /\ e.result.tag = "Err"
             /\ e.result.msg # ""
             /\ e.result.msg \in {NotFoundMsg, NotADirMsg}
             /\ e.after = e.before
             /\ alive

C2_Witness ==
    \E i \in DOMAIN responses :
       LET e == responses[i] IN
       /\ e.path = NodeG
       /\ e.before[NodeA] = "dir" /\ e.before[NodeS] = "absent"
       /\ e.result = Err(NotFoundMsg)
       /\ e.after = e.before

(* C3 as stated: whenever access is denied at the deletion root (it cannot *)
(* be listed, or it has entries and cannot be written), the call fails and *)
(* the filesystem is unchanged.                                            *)
C3_AsStated ==
    \A i \in DOMAIN responses :
       LET e == responses[i]
           r == Resolve(e.before, mode, e.path)
       IN (r.err = "" /\ e.before[r.node] = "dir"
             /\ \/ mode[r.node] = "none"
                \/ mode[r.node] = "rx" /\ Children(e.before, r.node) # {})
          => /\ e.result.tag = "Err"
             /\ e.after = e.before

(* C3 amended: when access is denied at the deletion root the call fails   *)
(* with the permission error.  A root that cannot be reached or listed     *)
(* leaves the filesystem unchanged; a root that can be listed but not      *)
(* written keeps itself and its direct entries, while entries of its       *)
(* subdirectories may already be gone.                                     *)
C3_DeniedAtRoot ==
    \A i \in DOMAIN responses :
       LET e == responses[i]
           r == Resolve(e.before, mode, e.path)
       IN /\ r.err = "EACCES" => e.result = Err(DeniedMsg) /\ e.after = e.before
          /\ (r.err = "" /\ e.before[r.node] = "dir" /\ mode[r.node] = "none")
             => e.result = Err(DeniedMsg) /\ e.after = e.before
          /\ (r.err = "" /\ e.before[r.node] = "dir" /\ mode[r.node] = "rx"
                /\ Children(e.before, r.node) # {})
             => /\ e.result = Err(DeniedMsg)
                /\ \A n \in Nodes :
                      (n = r.node \/ Parent(n) = r.node) => e.after[n] = e.before[n]

C3_Witness ==
    \E i \in DOMAIN responses :
       LET e == responses[i] IN
       /\ e.path = NodeA
       /\ e.before[NodeA] = "dir" /\ mode[NodeA] = "none"
       /\ e.before[NodeS] = "dir" /\ mode[NodeS] = "rwx"
       /\ e.before[NodeG] = "file"
       /\ e.result = Err(DeniedMsg)
       /\ e.after = e.before

(* C4: two calls in sequence on the same existing deletable directory: the *)
(* first returns Ok, the second fails with the not-found error, removes    *)
(* nothing, and the process keeps running.                                 *)
C4_SecondCallNotFound ==
    \A i \in DOMAIN responses :
       (i + 1) \in DOMAIN responses =>
          LET e1 == responses[i]
              e2 == responses[i + 1]
              r == Resolve(e1.before, mode, e1.path)
          IN (e1.path = e2.path /\ r.err = "" /\ e1.before[r.node] = "dir"
                /\ CallerMayDelete(e1.before, mode, r.node))
             => /\ e1.result = Ok
                /\ e2.before = e1.after
                /\ e2.result = Err(NotFoundMsg)
                /\ e2.after = e2.before
                /\ alive

C4_Witness ==
    /\ Len(responses) >= 2
    /\ responses[1].path = NodeS /\ responses[2].path = NodeS
    /\ responses[1].before[NodeS] = "dir"
    /\ responses[1].before[NodeG] # "absent"
    /\ responses[1].result = Ok
    /\ responses[2].result = Err(NotFoundMsg)

(* C5: the empty path is passed on unchecked and the call fails with the   *)
(* not-found error; nothing is deleted, in particular nothing of the       *)
(* working directory.                                                      *)
C5_EmptyPathFails ==
    \A i \in DOMAIN responses :
       LET e == responses[i] IN
       e.path = <<>> => /\ e.result = Err(NotFoundMsg)
                        /\ e.after = e.before

C5_Witness ==
    \E i \in DOMAIN responses :
       LET e == responses[i] IN
       /\ e.path = <<>>
       /\ e.before[NodeA] = "dir" /\ mode[NodeA] = "rwx" /\ mode[Top] = "rwx"
       /\ e.before[NodeF] = "file"
       /\ e.result.tag = "Err"
       /\ e.after = e.before

(* C6: no state is kept between invocations: whatever calls came before,   *)
(* the result of a call is the value Outcome gives for its path and the    *)
(* filesystem at the time of the call.                                     *)
C6_ResultIsFunctionOfPathAndFs ==
    \A i \in DOMAIN responses :
       LET e == responses[i] IN
       e.result = Outcome(e.before, mode, e.path)

\* A call that removed a symbolic link is followed by a call on an
\* enclosing directory, which is refused; both results are Outcome's.
C6_Witness ==
    /\ Len(responses) >= 2
    /\ responses[1].path = NodeG
    /\ responses[1].result = Ok
    /\ responses[2].path = NodeA
    /\ responses[2].before # responses[1].before
    /\ responses[2].result = Err(DeniedMsg)

(* C7: an invocation enters the primitive exactly once and never again     *)
(* after a failure; what the caller receives is Ok when the primitive      *)
(* succeeded and otherwise one failure carrying a non-empty string,        *)
(* whatever the cause; the process keeps running.                          *)
C7_OneAttemptForwarded ==
    /\ [](/\ alive
          /\ \A w \in Workers :
                /\ attempts[w] <= 1
                /\ pc[w] \in {"unlink_root", "open_root", "walk", "ret"}
                      => attempts[w] = 1
          /\ \A i \in DOMAIN responses :
                \/ responses[i].result = Ok
                \/ /\ responses[i].result.tag = "Err"
                   /\ responses[i].result.msg # "")
    /\ [][\A w \in Workers :
             (pc[w] = "ret" /\ pc'[w] = "idle") =>
                /\ Len(responses') = Len(responses) + 1
                /\ responses'[Len(responses')].path = path[w]
                /\ (responses'[Len(responses')].result = Ok) <=> (prim[w] = "")
                /\ attempts'[w] = 1]_vars

C7_Witness ==
    /\ alive
    /\ Len(responses) >= 2
    /\ responses[1].result = Err(DeniedMsg)
    /\ responses[1].after # responses[1].before
    /\ responses[2].result = Err(NotADirMsg)

(* C8: no lock: a call that has started is never made to wait for another, *)
(* so calls on equal or nested paths run through the same tree at the same *)
(* time, whatever the other call is doing.                                 *)
C8_NeverBlocked ==
    \A w \in Workers : pc[w] # "idle" => ENABLED WorkerStep(w)

\* One call has failed with not-found on a path that existed when it
\* started, while the other call, on the same or an enclosing path, is
\* still part-way through the tree.
C8_Witness ==
    \E i \in DOMAIN responses, w \in Workers :
       LET e == responses[i] IN
       /\ pc[w] = "walk"
       /\ IsPrefix(path[w], e.path)
       /\ Resolve(e.before, mode, e.path).err = ""
       /\ e.before[e.path] = "dir"
       /\ e.result = Err(NotFoundMsg)
       /\ e.after # e.before

(* C9: when an entry beneath the target directory cannot be removed the    *)
(* call fails; the target and the entries that cannot be removed still     *)
(* exist, whatever else was removed stays removed.                         *)
C9_FailureLeavesRest ==
    \A i \in DOMAIN responses :
       LET e == responses[i]
           r == Resolve(e.before, mode, e.path)
       IN (r.err = "" /\ e.before[r.node] = "dir"
             /\ Stuck(e.before, mode, r.node) # {})
          => /\ e.result.tag = "Err"
             /\ e.after[r.node] = "dir"
             /\ \A n \in Stuck(e.before, mode, r.node) : e.after[n] = e.before[n]
             /\ \A n \in Nodes : e.after[n] \in {e.before[n], "absent"}

\* A failed call that left the tree partially deleted.
C9_Witness ==
    \E i \in DOMAIN responses :
       LET e == responses[i] IN
       /\ e.path = NodeA
       /\ e.before[NodeF] = "file" /\ e.before[NodeG] = "file"
       /\ mode[NodeS] = "rx"
       /\ e.result = Err(DeniedMsg)
       /\ e.after[NodeF] = "absent"
       /\ e.after[NodeG] = "file" /\ e.after[NodeA] = "dir"

(* C10: every step of an invocation with path p changes the filesystem     *)
(* only by removing p or an entry beneath p; nothing else is removed,      *)
(* nothing is created and no permission is changed.                        *)
C10_OnlyBeneathPath ==
    [][/\ mode' = mode
       /\ \A n \in Nodes :
             fs'[n] # fs[n] =>
                /\ fs'[n] = "absent"
                /\ \E w \in Workers :
                      /\ pc[w] # "idle"
                      /\ pc'[w] # pc[w] \/ stack'[w] # stack[w]
                      /\ path[w] # <<>>
                      /\ IsPrefix(path[w], n)]_vars

\* The subdirectory a/s, holding a symbolic link, was deleted; its parent
\* and its sibling are as they were.
C10_Witness ==
    \E i \in DOMAIN responses :
       LET e == responses[i] IN
       /\ e.path = NodeS
       /\ e.before[NodeG] = "symlink" /\ e.before[NodeF] = "file"
       /\ e.result = Ok
       /\ e.after[NodeS] = "absent" /\ e.after[NodeG] = "absent"
       /\ e.after[NodeA] = "dir" /\ e.after[NodeF] = "file"

====
